---- MODULE Spec2Model ----
(***************************************************************************)
(* Model of datacatalog.solr.solr_orm (SolrQuery, SolrORM) and of          *)
(* datacatalog.controllers.web_controllers.default_search.                 *)
(*                                                                         *)
(* Python strings are sequences of tokens: a character of user input is a  *)
(* one-character token, a literal piece of a format string is one token,   *)
(* and str.format / + are sequence concatenation.  Names of schema fields  *)
(* are TLA+ strings built with \o.                                         *)
(***************************************************************************)
EXTENDS Integers, Sequences, FiniteSets, TLC

VARIABLES
    call,           \* the operation invoked and its arguments
    outcome,        \* what the caller got back: a value or an exception
    fqList,         \* the list object the caller handed in as fq, as it is now
    engineLog,      \* the requests the engine received during the call, and whether each failed
    schemaFields,   \* engine schema: field name -> field type
    copyFields,     \* engine schema: set of <<source, dest>> copy-field rules
    baseOf,         \* the class hierarchy: entity class -> its base class
    solr_fields,    \* class attribute _solr_fields of each class, or NoAttr
    entities,       \* app.config['entities']: the registered entity classes
    queryTextField, \* app.config['SOLR_QUERY_TEXT_FIELD']: entity name -> sources
    history,        \* the last schema operations, oldest first
    before,         \* the engine schema as it was before the last schema operation
    documents       \* the documents the engine holds

queryVars  == <<call, outcome, fqList, engineLog>>
schemaVars == <<schemaFields, copyFields, solr_fields, queryTextField, history, before>>
vars == <<call, outcome, fqList, engineLog, schemaFields, copyFields, baseOf,
          solr_fields, entities, queryTextField, history, before, documents>>

(***************************************************************************)
(* Bounds of the model.                                                    *)
(***************************************************************************)
MaxQueryLen == 3
MaxFacets == 2
MaxValues == 2
MaxDocs == 2

None == [none |-> TRUE]

\* statement sequencing: v is evaluated, then K on its value
Then(v, K(_)) == CHOOSE r \in {K(x) : x \in {v}} : TRUE

(***************************************************************************)
(* Python str operations.                                                  *)
(***************************************************************************)
Whitespace == {" "}

RECURSIVE lstrip(_)
lstrip(s) == IF s # <<>> /\ Head(s) \in Whitespace THEN lstrip(Tail(s)) ELSE s

RECURSIVE rstrip(_)
rstrip(s) ==
    IF s # <<>> /\ s[Len(s)] \in Whitespace
    THEN rstrip(SubSeq(s, 1, Len(s) - 1))
    ELSE s

strip(s) == rstrip(lstrip(s))

\* index just past the first run of non-whitespace characters of t
WordEnd(t) ==
    CHOOSE n \in 1..(Len(t) + 1) :
        /\ \A k \in 1..(n - 1) : t[k] \notin Whitespace
        /\ (n = Len(t) + 1 \/ t[n] \in Whitespace)

RECURSIVE split(_)
split(s) ==
    LET t == lstrip(s) IN
    IF t = <<>> THEN <<>>
    ELSE <<SubSeq(t, 1, WordEnd(t) - 1)>> \o split(SubSeq(t, WordEnd(t), Len(t)))

RECURSIVE join(_, _)
join(sep, xs) ==
    IF xs = <<>> THEN <<>>
    ELSE IF Len(xs) = 1 THEN xs[1]
    ELSE xs[1] \o sep \o join(sep, Tail(xs))

Digits == <<"0", "1", "2", "3", "4", "5", "6", "7", "8", "9">>

RECURSIVE str(_)
str(n) == IF n < 10 THEN <<Digits[n + 1]>> ELSE str(n \div 10) \o <<Digits[(n % 10) + 1]>>

\* number of characters of a string of tokens
RECURSIVE len(_)
len(s) == IF s = <<>> THEN 0 ELSE Len(Head(s)) + len(Tail(s))

\* s[n:] for a cut that falls between two tokens
RECURSIVE slice_from(_, _)
slice_from(s, n) ==
    IF n = 0 \/ s = <<>> THEN s
    ELSE IF Len(Head(s)) <= n THEN slice_from(Tail(s), n - Len(Head(s)))
    ELSE <<"?">> \o Tail(s)

\* a Python value held in a list: a str or a nested list
Str(t) == [str |-> t]
List(l) == [list |-> l]
IsStr(v) == DOMAIN v = {"str"}


(***************************************************************************)
(* The application's entity classes: SolrEntity subclasses and the         *)
(* SolrField attributes each one declares in its own class body.           *)
(***************************************************************************)
Classes == {"Dataset", "Project", "Cohort"}

SolrField(name, type, indexed, stored, multivalued) ==
    [name |-> name, type |-> type, indexed |-> indexed, stored |-> stored,
     multivalued |-> multivalued]

\* solr_entity_class.__dict__ restricted to its SolrField values
ClassDict(cls) ==
    CASE cls = "Dataset" ->
            [a \in {"title", "created"} |->
                IF a = "title" THEN SolrField("title", "text_en", TRUE, TRUE, FALSE)
                ELSE SolrField("created", "pdate", TRUE, TRUE, FALSE)]
      [] cls = "Project" ->
            [a \in {"title", "keywords"} |->
                IF a = "title" THEN SolrField("title", "text_en", TRUE, TRUE, FALSE)
                ELSE SolrField("keywords", "string", TRUE, TRUE, TRUE)]
      [] cls = "Cohort" ->
            [a \in {"title", "size"} |->
                IF a = "title" THEN SolrField("title", "string", TRUE, TRUE, FALSE)
                ELSE SolrField("size", "pint", TRUE, TRUE, FALSE)]
      [] OTHER -> [a \in {} |-> None]

\* class_object.__name__.lower()
entity_name_of(cls) ==
    CASE cls = "Dataset" -> "dataset"
      [] cls = "Project" -> "project"
      [] cls = "Cohort" -> "cohort"
      [] OTHER -> "solrentity"

\* the class hierarchies the application may declare: Cohort is either a
\* direct subclass of SolrEntity or a subclass of Dataset
Hierarchies ==
    {[c \in Classes |-> IF c = "Cohort" THEN b ELSE "SolrEntity"] :
        b \in {"SolrEntity", "Dataset"}}

\* SolrEntity.__subclasses__(): the direct subclasses only
subclasses(bases) == {c \in Classes : bases[c] = "SolrEntity"}

NoAttr == [noattr |-> TRUE]

\* the class on which attribute _solr_fields is found, looking up the MRO
RECURSIVE owner_of_solr_fields(_, _, _)
owner_of_solr_fields(cls, bases, attrs) ==
    IF cls \notin Classes THEN "object"
    ELSE IF attrs[cls] # NoAttr THEN cls
    ELSE owner_of_solr_fields(bases[cls], bases, attrs)

hasattr_solr_fields(cls, bases, attrs) ==
    owner_of_solr_fields(cls, bases, attrs) \in Classes

getattr_solr_fields(cls, bases, attrs) ==
    attrs[owner_of_solr_fields(cls, bases, attrs)]

\* the dict update attributes[name] = value for every name of d
dict_update(attributes, d) ==
    [a \in DOMAIN attributes \cup DOMAIN d |->
        IF a \in DOMAIN d THEN d[a] ELSE attributes[a]]

RECURSIVE _find_fields(_, _, _)
_find_fields(cls, bases, attributes) ==
    LET own == dict_update(attributes, ClassDict(cls)) IN
    IF cls \in Classes /\ bases[cls] # "object"
    THEN _find_fields(bases[cls], bases, own)
    ELSE own

get_fields_for_class(cls, bases) ==
    _find_fields(cls, bases, [a \in {} |-> None])

\* the assignment guarded by "if not hasattr(cls, '_solr_fields')"
cache_solr_fields(cls, bases, attrs) ==
    IF hasattr_solr_fields(cls, bases, attrs) THEN attrs
    ELSE [attrs EXCEPT ![cls] = get_fields_for_class(cls, bases)]

\* the loop of SolrORM.__init__ over SolrEntity.__subclasses__()
RECURSIVE SolrORM_init(_, _, _)
SolrORM_init(todo, bases, attrs) ==
    IF todo = {} THEN attrs
    ELSE LET c == CHOOSE x \in todo : TRUE IN
         SolrORM_init(todo \ {c}, bases, cache_solr_fields(c, bases, attrs))


(***************************************************************************)
(* Facets (datacatalog.solr.facets): a Facet carries the values selected   *)
(* on it; a FacetRange is a Facet with a range.                            *)
(***************************************************************************)
Facet(field_name, values) == [field_name |-> field_name, values |-> values, range |-> None]

FacetRange(field_name, values, range) ==
    [field_name |-> field_name, values |-> values, range |-> range]

isinstance_FacetRange(facet) == facet.range # None

(***************************************************************************)
(* SolrQuery.search: construction of the request.                          *)
(***************************************************************************)
FUZZY_SEARCH_LEVEL == 4

\* '~{}'.format(app.config.get('FUZZY_SEARCH_LEVEL', 4))
FUZZY_SEARCH_SUFFIX == <<"~">> \o str(FUZZY_SEARCH_LEVEL)

\* the dict assignment d[k] = v
Put(d, k, v) == [x \in DOMAIN d \cup {k} |-> IF x = k THEN v ELSE d[x]]

sort_with_order(sort, sort_order) ==
    IF sort # <<>>
    THEN sort \o <<" ">> \o (IF sort_order # <<>> THEN sort_order ELSE <<"desc">>)
    ELSE <<>>

\* a fuzzy term without the tolerance marker
fuzzy_term_unmarked(entity_name, term) ==
    <<"OR ", entity_name, "_textfuzzy_:">> \o term

\* 'OR {}_textfuzzy_:{}{}'.format(self.entity_name, term, FUZZY_SEARCH_SUFFIX)
fuzzy_term(entity_name, term) ==
    <<"OR ", entity_name, "_textfuzzy_:">> \o term \o FUZZY_SEARCH_SUFFIX

\* the clause built when fuzzy is true; query is already stripped
fuzzy_clause(entity_name, query) ==
    LET terms == split(query)
        fuzzy_terms ==
            join(<<" ">>, [i \in 1..Len(terms) |-> fuzzy_term(entity_name, terms[i])])
    IN <<"(", entity_name, "_text_:'">> \o query \o <<"' ">> \o fuzzy_terms \o <<")">>

\* the clause built when fuzzy is false: the format argument is
\* FUZZY_SEARCH_SUFFIX, not the query
exact_clause(entity_name, query) ==
    <<entity_name, "_text_:'">> \o FUZZY_SEARCH_SUFFIX \o <<"'">>

\* query = query.strip(); if query: ... fq.append(query)
free_text(entity_name, query, fuzzy, fq) ==
    LET q == strip(query) IN
    IF q # <<>>
    THEN Append(fq, Str(IF fuzzy THEN fuzzy_clause(entity_name, q)
                        ELSE exact_clause(entity_name, q)))
    ELSE fq

\* '{}_{}:"{}"'.format(self.entity_name, facet.field_name, value)
field_facet_clause(entity_name, field_name, value) ==
    <<entity_name, "_", field_name, ":\"">> \o value \o <<"\"">>

\* '{}_{}:{}'.format(self.entity_name, facet.field_name, value)
range_facet_clause(entity_name, field_name, value) ==
    <<entity_name, "_", field_name, ":">> \o value

\* "f.{}_{}.facet.range.<what>".format(self.entity_name, facet.field_name)
range_param(entity_name, field_name, what) ==
    <<"f.", entity_name, "_", field_name, ".facet.range.", what>>

\* the else branch of the facet loop: a discrete Facet
field_facet(entity_name, facet, st) ==
    [st EXCEPT
        !.fq = st.fq \o [i \in 1..Len(facet.values) |->
                    Str(field_facet_clause(entity_name, facet.field_name, facet.values[i]))],
        !.params = Put(st.params, <<"facet.field">>,
                       Append(st.params[<<"facet.field">>],
                              <<entity_name, "_", facet.field_name>>))]

\* the isinstance(facet, FacetRange) branch: list.append is called with two
\* arguments, which raises TypeError before any filter clause is appended
range_facet(entity_name, facet, st) ==
    LET p1 == Put(st.params, range_param(entity_name, facet.field_name, "start"), facet.range.start)
        p2 == Put(p1, range_param(entity_name, facet.field_name, "end"), facet.range.end)
        p3 == Put(p2, range_param(entity_name, facet.field_name, "gap"), facet.range.gap)
        p4 == Put(p3, range_param(entity_name, facet.field_name, "other"), facet.range.other)
    IN [st EXCEPT !.params = p4, !.raised = [type |-> "TypeError", cause |-> None]]

RECURSIVE facet_loop(_, _, _)
facet_loop(entity_name, facets, st) ==
    IF facets = <<>> \/ st.raised # None THEN st
    ELSE Then(IF isinstance_FacetRange(Head(facets))
              THEN range_facet(entity_name, Head(facets), st)
              ELSE field_facet(entity_name, Head(facets), st),
              LAMBDA st1 : facet_loop(entity_name, Tail(facets), st1))

\* search up to the try block: the filter list, the params and what was raised.
\* fq is the caller's list (None when omitted); params['fq'] is that same list
\* object, so it holds whatever was appended to it afterwards.
build_request(self, query, rows, start, sort, sort_order, fq, facets, fuzzy) ==
    Then((<<"sort">> :> sort_with_order(sort, sort_order))
            @@ (<<"defType">> :> <<"edismax">>)
            @@ (<<"qf">> :> self.BOOST),
         LAMBDA params0 :
    Then(free_text(self.entity_name, query, fuzzy, IF fq = None THEN <<>> ELSE fq.list),
         LAMBDA fq1 :
    Then(IF rows # 0 THEN Put(params0, <<"rows">>, rows) ELSE params0,
         LAMBDA params1 :
    Then(IF start # 0 THEN Put(params1, <<"start">>, start) ELSE params1,
         LAMBDA params2 :
    Then(IF facets # <<>>
         THEN facet_loop(self.entity_name, facets,
                         [fq |-> fq1,
                          params |-> Put(Put(Put(params2, <<"facet">>, <<"on">>),
                                             <<"facet.field">>, <<>>),
                                         <<"facet.range">>, <<>>),
                          raised |-> None])
         ELSE [fq |-> fq1, params |-> params2, raised |-> None],
         LAMBDA st1 :
            [st1 EXCEPT !.params = Put(st1.params, <<"fq">>, st1.fq)])))))


(***************************************************************************)
(* The search engine behind pysolr: the documents of the index and what a  *)
(* query may return.  A filter clause the model does not interpret may     *)
(* match any subset of the documents.                                      *)
(***************************************************************************)
DATETIME_FORMAT == "micro"
DATETIME_FORMAT_NO_MICRO == "no_micro"

IndexDocs ==
    << [id |-> <<"dataset", "_", "1">>, type |-> "dataset",
        fields |-> ("dataset_title" :> Str(<<"t">>))
                   @@ ("dataset_created" :> [format |-> DATETIME_FORMAT, instant |-> 1])],
       [id |-> <<"project", "_", "1">>, type |-> "project",
        fields |-> ("project_title" :> Str(<<"t">>))] >>

\* stored values of a date field: a timestamp in the primary format, in the
\* format without fractional seconds, or a string in neither format
StoredDates ==
    {[format |-> f, instant |-> 1] : f \in {DATETIME_FORMAT, DATETIME_FORMAT_NO_MICRO, "date_only"}}

\* a dataset document; created = None leaves the date field out
DatedDoc(i, created) ==
    [id |-> <<"dataset", "_">> \o str(i), type |-> "dataset",
     fields |-> IF created = None THEN ("dataset_title" :> Str(<<"t">>))
                ELSE ("dataset_title" :> Str(<<"t">>)) @@ ("dataset_created" :> created)]

\* indexes of up to MaxDocs dataset documents with any stored date
DatedIndexes ==
    UNION {{[i \in 1..n |-> DatedDoc(i, dates[i])] : dates \in [1..n -> StoredDates \cup {None}]} :
              n \in 1..MaxDocs}

\* the documents of the index at the positions S, in index order
RECURSIVE pick(_, _)
pick(S, n) ==
    IF n = 0 THEN <<>>
    ELSE IF n \in S THEN Append(pick(S, n - 1), documents[n])
    ELSE pick(S, n - 1)

\* the entity types the filter list restricts the type field to
type_filters(fq) ==
    {t \in {documents[i].type : i \in 1..Len(documents)} :
        \E i \in 1..Len(fq) : fq[i] = Str(<<"type:", t>>)}

\* positions of the documents a query q with filter list fq may match
matching(q, fq) ==
    {i \in 1..Len(documents) :
        /\ \A t \in type_filters(fq) : documents[i].type = t
        /\ (Len(q) = 2 /\ q[1] = "type:") => documents[i].type = q[2]
        /\ (Len(q) > 1 /\ q[1] = "id:") => documents[i].id = Tail(q)}

\* what self.solr_orm.indexer.search(q, **params) may do
Responses(q, fq) ==
    {[error |-> TRUE, docs |-> <<>>]} \cup
    {[error |-> FALSE, docs |-> pick(S, Len(documents))] :
        S \in IF q = <<"*:*">> THEN SUBSET matching(q, fq) ELSE {matching(q, fq)}}

(***************************************************************************)
(* SolrQuery._build_instance                                               *)
(***************************************************************************)
\* datetime.strptime(value, format)
strptime(value, format) ==
    IF value.format = format
    THEN [raised |-> None, value |-> [datetime |-> value.instant]]
    ELSE [raised |-> [type |-> "ValueError", cause |-> None], value |-> None]

\* doc.get(key, None)
doc_get(doc, key) == IF key \in DOMAIN doc.fields THEN doc.fields[key] ELSE None

\* hydration that tries the primary format only
hydrate_field_primary_only(entity_name, field, doc) ==
    LET solr_value == doc_get(doc, entity_name \o "_" \o field.name) IN
    IF solr_value # None /\ field.type = "pdate"
    THEN strptime(solr_value, DATETIME_FORMAT)
    ELSE [raised |-> None, value |-> solr_value]

\* the value hydrated for one field of the descriptor
hydrate_field(entity_name, field, doc) ==
    LET solr_value == doc_get(doc, entity_name \o "_" \o field.name) IN
    IF solr_value # None /\ field.type = "pdate"
    THEN IF strptime(solr_value, DATETIME_FORMAT).raised = None
         THEN strptime(solr_value, DATETIME_FORMAT)
         ELSE strptime(solr_value, DATETIME_FORMAT_NO_MICRO)
    ELSE [raised |-> None, value |-> solr_value]

_build_instance(self, doc) ==
    LET fields == self.solr_fields
        failed == {a \in DOMAIN fields :
                      hydrate_field(self.entity_name, fields[a], doc).raised # None}
        doc_id == IF doc.id # <<>>
                  THEN slice_from(doc.id, Len(self.entity_name) + 1)
                  ELSE doc.id
    IN IF failed # {}
       THEN [raised |-> [type |-> "ValueError", cause |-> None], value |-> None]
       ELSE [raised |-> None,
             value |-> [a \in DOMAIN fields \cup {"id"} |->
                          IF a = "id" THEN doc_id
                          ELSE hydrate_field(self.entity_name, fields[a], doc).value]]

\* the instances built for a list of documents, or the first exception
build_all(self, docs) ==
    IF \E i \in 1..Len(docs) : _build_instance(self, docs[i]).raised # None
    THEN [raised |-> [type |-> "ValueError", cause |-> None], value |-> None]
    ELSE [raised |-> None,
          value |-> [i \in 1..Len(docs) |-> _build_instance(self, docs[i]).value]]

(***************************************************************************)
(* The query operations of SolrQuery.  Each yields what the caller gets    *)
(* (outcome), the list object passed as fq (fq) and the requests sent.     *)
(***************************************************************************)
Return(value) == [kind |-> "return", value |-> value, exc |-> None]
Raise(exc) == [kind |-> "raise", value |-> None, exc |-> exc]

\* facet_fields of the response, keyed by the names asked for in facet.field
facet_counts(params) ==
    IF <<"facet.field">> \in DOMAIN params /\ params[<<"facet.field">>] # <<>>
    THEN [k \in {params[<<"facet.field">>][i] : i \in 1..Len(params[<<"facet.field">>])}
            |-> "counts"]
    ELSE None

\* field_name[len(self.entity_name + '_'):] for every key of facet_fields
strip_prefix(entity_name, facet_fields) ==
    IF facet_fields = None THEN None
    ELSE [k \in {slice_from(f, Len(entity_name \o "_")) : f \in DOMAIN facet_fields}
            |-> "counts"]

\* the try block of search, given the response resp of the engine
search_try(self, params, resp) ==
    IF resp.error
    THEN Raise([type |-> "SolrQueryException", cause |-> [type |-> "SolrError", cause |-> None]])
    ELSE Then(build_all(self, resp.docs),
              LAMBDA built :
                IF built.raised # None THEN Raise(built.raised)
                ELSE Return([hits |-> Len(resp.docs), docs |-> resp.docs,
                             entities |-> built.value,
                             facets |-> [facet_fields |->
                                           strip_prefix(self.entity_name,
                                                        facet_counts(params))]]))

search(self, query, rows, start, sort, sort_order, fq, facets, fuzzy, resp) ==
    Then(build_request(self, query, rows, start, sort, sort_order, fq, facets, fuzzy),
         LAMBDA st :
            IF st.raised # None
            THEN [outcome |-> Raise(st.raised), fq |-> st.fq, log |-> <<>>]
            ELSE [outcome |-> search_try(self, st.params, resp), fq |-> st.fq,
                  log |-> <<[q |-> <<"*:*">>, params |-> st.params,
                             failed |-> resp.error]>>])


\* the request of get: q="id:{}_{}".format(self.entity_name, entity_id), rows=1
get_query(self, entity_id) == <<"id:", self.entity_name, "_">> \o entity_id

get(self, entity_id, resp) ==
    [log |-> <<[q |-> get_query(self, entity_id), params |-> (<<"rows">> :> 1),
               failed |-> resp.error]>>,
     outcome |->
        IF resp.error THEN Raise([type |-> "SolrError", cause |-> None])
        ELSE IF Len(resp.docs) = 0 THEN Return(None)
        ELSE Then(_build_instance(self, resp.docs[1]),
                  LAMBDA built :
                    IF built.raised # None THEN Raise(built.raised)
                    ELSE Return(built.value))]

\* the request of count and of all: q="type:" + self.entity_name
type_query(self) == <<"type:", self.entity_name>>

count(self, resp) ==
    [log |-> <<[q |-> type_query(self), params |-> (<<"fl">> :> <<"numFound">>),
               failed |-> resp.error]>>,
     outcome |->
        IF resp.error THEN Raise([type |-> "SolrError", cause |-> None])
        ELSE Return(Len(resp.docs))]

all(self, resp) ==
    [log |-> <<[q |-> type_query(self), params |-> (<<"rows">> :> 1000000),
               failed |-> resp.error]>>,
     outcome |->
        IF resp.error THEN Raise([type |-> "SolrError", cause |-> None])
        ELSE Then(build_all(self, resp.docs),
                  LAMBDA built :
                    IF built.raised # None THEN Raise(built.raised)
                    ELSE Return(built.value))]

SORT_OPTIONS == <<<<"created">>, <<"id">>>>
DEFAULT_SORT == <<"created">>
DEFAULT_SORT_ORDER == <<"asc">>

get_default_sort(self, query) ==
    IF query # <<>> THEN << <<>>, <<"desc">> >>
    ELSE << <<self.entity_name, "_">> \o DEFAULT_SORT, DEFAULT_SORT_ORDER >>

\* the first element of the tuple get_sort_options returns
get_sort_options(self) ==
    [i \in 1..Len(SORT_OPTIONS) |->
        IF SORT_OPTIONS[i] # <<"id">>
        THEN <<self.entity_name, "_">> \o SORT_OPTIONS[i]
        ELSE <<"id">>]

\* get_facets: one Facet per attribute of facet_list that the class declares,
\* in a dict keyed by attribute name
RECURSIVE get_facets(_, _)
get_facets(self, facet_list) ==
    IF facet_list = <<>> THEN <<>>
    ELSE LET attribute_name == facet_list[Len(facet_list)]
             rest == get_facets(self, SubSeq(facet_list, 1, Len(facet_list) - 1))
         IN IF attribute_name \in DOMAIN self.solr_fields
               /\ \A i \in 1..Len(rest) : rest[i].attribute_name # attribute_name
            THEN Append(rest, [attribute_name |-> attribute_name,
                               facet |-> Facet(self.solr_fields[attribute_name].name, <<>>)])
            ELSE rest


(***************************************************************************)
(* web_controllers.default_search                                          *)
(***************************************************************************)
RESULTS_PER_PAGE_DEFAULT == 20

\* search_request.args.get(key, default): args maps a name to its list of values
args_get(args, key, default) == IF key \in DOMAIN args THEN args[key][1] ELSE default

IsDigits(s) == s # <<>> /\ \A i \in 1..Len(s) : \E d \in 1..10 : Digits[d] = s[i]

RECURSIVE digits_value(_)
digits_value(s) ==
    IF s = <<>> THEN 0
    ELSE 10 * digits_value(SubSeq(s, 1, Len(s) - 1))
         + ((CHOOSE d \in 1..10 : Digits[d] = s[Len(s)]) - 1)

\* int(s) for a str s
int(s) ==
    Then(strip(s),
         LAMBDA t :
    Then(IF t # <<>> /\ t[1] \in {"-", "+"} THEN Tail(t) ELSE t,
         LAMBDA body :
            IF IsDigits(body)
            THEN [raised |-> None,
                  value |-> IF t[1] = "-" THEN 0 - digits_value(body)
                            ELSE digits_value(body)]
            ELSE [raised |-> [type |-> "ValueError", cause |-> None], value |-> 0]))

\* facet.set_values(args.getlist(field_name)) or facet.use_default() for every
\* facet of the dict; a Facet built by get_facets has no default values
select_facets(facets, args) ==
    [i \in 1..Len(facets) |->
        IF facets[i].facet.field_name \in DOMAIN args
        THEN [facets[i].facet EXCEPT !.values = args[facets[i].facet.field_name]]
        ELSE [facets[i].facet EXCEPT !.values = <<>>]]

\* lines 154-161: the filter list handed to search
default_search_fq(entity_type, extra_filter) ==
    LET fq0 == IF extra_filter # <<>> THEN <<List(extra_filter)>> ELSE <<>>
    IN IF entity_type # "" THEN Append(fq0, Str(<<"type:", entity_type>>)) ELSE fq0

\* a window that starts after the requested page
rows_and_start_after_page(export_excel, page, results_per_page) ==
    IF export_excel THEN [rows |-> 100000, start |-> 0]
    ELSE [rows |-> results_per_page, start |-> page * results_per_page]

\* lines 135-140: the window of results asked from search
rows_and_start(export_excel, page, results_per_page) ==
    IF export_excel THEN [rows |-> 100000, start |-> 0]
    ELSE [rows |-> results_per_page, start |-> (page - 1) * results_per_page]

error_page(status, message) ==
    Return([status |-> status, template |-> "error.html", message |-> message])

\* lines 163-187: what the view answers once search has answered
respond(entity_type, searched, counted, export_excel, authenticated, page, per_page, sort_by, sort_order, facets) ==
    IF searched.outcome.kind = "raise"
    THEN [outcome |-> IF searched.outcome.exc.type = "SolrQueryException"
                      THEN error_page(200, "a problem occurred while querying the indexer")
                      ELSE searched.outcome,
          log |-> counted.log \o searched.log, fq |-> List(searched.fq)]
    ELSE [outcome |->
             IF export_excel
             THEN IF ~authenticated
                  THEN Return([status |-> 401, template |-> "unauthorized", message |-> ""])
                  ELSE Return([status |-> 200, template |-> "xlsx",
                               results |-> searched.outcome.value])
             ELSE Return([status |-> 200, template |-> "search_" \o entity_type \o ".html",
                          results |-> searched.outcome.value, page |-> page,
                          per_page |-> per_page, selected_sort |-> sort_by,
                          sort_order |-> sort_order, facets |-> facets]),
          log |-> counted.log \o searched.log, fq |-> List(searched.fq)]

default_search(self, args, extra_filter, facets_order, results_per_page, exporter, authenticated, count_resp, search_resp) ==
    Then(strip(args_get(args, "query", <<>>)),
         LAMBDA query :
    Then(get_default_sort(self, query),
         LAMBDA default_sort :
    Then([sort_by |-> args_get(args, "sort_by", default_sort[1]),
          sort_order |-> args_get(args, "order", default_sort[2]),
          export_excel |-> "export_excel" \in DOMAIN args /\ exporter,
          per_page |-> IF results_per_page # 0 THEN results_per_page
                       ELSE RESULTS_PER_PAGE_DEFAULT,
          sort_options |-> get_sort_options(self)],
         LAMBDA given :
    Then(int(strip(args_get(args, "page", <<"1">>))),
         LAMBDA parsed :
    Then(IF parsed.raised = None THEN parsed.value ELSE 1,
         LAMBDA page :
            IF \/ page < 1
               \/ given.sort_order \notin {<<"asc">>, <<"desc">>}
               \/ (given.sort_by # <<>>
                    /\ \A i \in 1..Len(given.sort_options) :
                          given.sort_options[i] # given.sort_by)
            THEN [outcome |-> error_page(400, "wrong parameters"), log |-> <<>>, fq |-> None]
            ELSE
    Then(count(self, count_resp),
         LAMBDA counted :
            IF counted.outcome.kind = "raise"
            THEN [outcome |-> counted.outcome, log |-> counted.log, fq |-> None]
            ELSE
    Then(IF counted.outcome.value > 0
         THEN select_facets(get_facets(self, facets_order), args)
         ELSE <<>>,
         LAMBDA facets :
    Then(search(self, query,
                rows_and_start(given.export_excel, page, given.per_page).rows,
                rows_and_start(given.export_excel, page, given.per_page).start,
                given.sort_by, given.sort_order,
                List(default_search_fq(self.entity_name, extra_filter)),
                facets, TRUE, search_resp),
         LAMBDA searched :
            respond(self.entity_name, searched, counted, given.export_excel, authenticated,
                    page, given.per_page, given.sort_by, given.sort_order, facets)))))))))


(***************************************************************************)
(* The schema endpoint of the engine.  A schema is [fields, copy]: the     *)
(* definition of every field and the set of copy-field rules.  A request   *)
(* carries a list of commands and is applied as a whole or not at all.     *)
(***************************************************************************)
EmptySchema == [fields |-> [n \in {} |-> None], copy |-> {}]

FieldDef(type, indexed, stored, multivalued) ==
    [type |-> type, indexed |-> indexed, stored |-> stored, multiValued |-> multivalued]

Remove(d, k) == [x \in DOMAIN d \ {k} |-> d[x]]

Referenced(sch, name) == \E cf \in sch.copy : cf[1] = name \/ cf[2] = name

\* one command: [ok, sch]
apply(sch, c) ==
    CASE c.op = "add-field" ->
            IF c.name \in DOMAIN sch.fields THEN [ok |-> FALSE, sch |-> sch]
            ELSE [ok |-> TRUE, sch |-> [sch EXCEPT !.fields = Put(@, c.name, c.def)]]
      [] c.op = "replace-field" ->
            IF c.name \notin DOMAIN sch.fields THEN [ok |-> FALSE, sch |-> sch]
            ELSE [ok |-> TRUE, sch |-> [sch EXCEPT !.fields = Put(@, c.name, c.def)]]
      [] c.op = "delete-field" ->
            IF c.name \notin DOMAIN sch.fields \/ Referenced(sch, c.name)
            THEN [ok |-> FALSE, sch |-> sch]
            ELSE [ok |-> TRUE, sch |-> [sch EXCEPT !.fields = Remove(@, c.name)]]
      [] c.op = "add-copy-field" ->
            IF c.source \notin DOMAIN sch.fields \/ c.dest \notin DOMAIN sch.fields
            THEN [ok |-> FALSE, sch |-> sch]
            ELSE [ok |-> TRUE, sch |-> [sch EXCEPT !.copy = @ \cup {<<c.source, c.dest>>}]]
      [] c.op = "delete-copy-field" ->
            IF <<c.source, c.dest>> \notin sch.copy THEN [ok |-> FALSE, sch |-> sch]
            ELSE [ok |-> TRUE, sch |-> [sch EXCEPT !.copy = @ \ {<<c.source, c.dest>>}]]

RECURSIVE apply_all(_, _)
apply_all(sch, commands) ==
    IF commands = <<>> THEN [ok |-> TRUE, sch |-> sch]
    ELSE Then(apply(sch, Head(commands)),
              LAMBDA r : IF r.ok THEN apply_all(r.sch, Tail(commands)) ELSE r)

\* requests.post(self.indexer_schema.url, data=json.dumps(...)): ok is
\* status_code == 200
post(sch, commands) ==
    Then(apply_all(sch, commands),
         LAMBDA r : IF r.ok THEN r ELSE [ok |-> FALSE, sch |-> sch])

add_field(name, def) == [op |-> "add-field", name |-> name, def |-> def]
replace_field(name, def) == [op |-> "replace-field", name |-> name, def |-> def]
delete_field_command(name) == [op |-> "delete-field", name |-> name]
add_copy_field(source, dest) == [op |-> "add-copy-field", source |-> source, dest |-> dest]
delete_copy_field(source, dest) == [op |-> "delete-copy-field", source |-> source, dest |-> dest]

(***************************************************************************)
(* SolrSchemaAdmin (datacatalog.solr.solr_orm_schema): a failed create or  *)
(* update is logged and skipped; a failed delete raises HTTPError.         *)
(***************************************************************************)
create_field(sch, name, type, index, store, multivalued) ==
    post(sch, <<add_field(name, FieldDef(type, index, store, multivalued))>>).sch

update_field(sch, name, type, index, store, multivalued) ==
    post(sch, <<replace_field(name, FieldDef(type, index, store, multivalued))>>).sch

delete_field(sch, name) ==
    Then(post(sch, <<delete_field_command(name)>>),
         LAMBDA r : [raised |-> IF r.ok THEN None
                                ELSE [type |-> "HTTPError", cause |-> None],
                     sch |-> r.sch])

(***************************************************************************)
(* SolrORM: createFields, updateFields, deleteFields                       *)
(***************************************************************************)
DEFAULT_QUERY_FIELDS == <<"title">>

\* app.config.get('SOLR_QUERY_TEXT_FIELD', {}).get(entity_name), or the default
solr_query_fields(config, entity_name) ==
    IF entity_name \in DOMAIN config /\ config[entity_name] # <<>>
    THEN config[entity_name]
    ELSE DEFAULT_QUERY_FIELDS

text_field(entity_name) == entity_name \o "_text_"
textfuzzy_field(entity_name) == entity_name \o "_textfuzzy_"

\* update_field or create_field of one declared field
create_or_update_field(sch, entity_name, field, update) ==
    IF update
    THEN update_field(sch, entity_name \o "_" \o field.name, field.type,
                      field.indexed, field.stored, field.multivalued)
    ELSE create_field(sch, entity_name \o "_" \o field.name, field.type,
                      field.indexed, field.stored, field.multivalued)

\* the loop over fields.values()
RECURSIVE create_or_update_declared(_, _, _, _, _)
create_or_update_declared(sch, entity_name, fields, todo, update) ==
    IF todo = {} THEN sch
    ELSE \* the next field of the dict
         Then(CHOOSE x \in todo : TRUE,
              LAMBDA a :
                Then(create_or_update_field(sch, entity_name, fields[a], update),
                     LAMBDA s1 : create_or_update_declared(s1, entity_name, fields,
                                                           todo \ {a}, update)))

\* delete-copy-field of every source towards dest; the source is sent as
\* configured, without the entity prefix
RECURSIVE delete_copy_fields_of_sources(_, _, _)
delete_copy_fields_of_sources(sch, sources, dest) ==
    IF sources = <<>> THEN sch
    ELSE Then(post(sch, <<delete_copy_field(Head(sources), dest)>>),
              LAMBDA r : delete_copy_fields_of_sources(r.sch, Tail(sources), dest))

\* add-copy-field of every source towards _text_ and towards _textfuzzy_
RECURSIVE add_copy_fields_of_sources(_, _, _)
add_copy_fields_of_sources(sch, entity_name, sources) ==
    IF sources = <<>> THEN sch
    ELSE Then(post(sch, <<add_copy_field(entity_name \o "_" \o Head(sources),
                                         text_field(entity_name))>>),
              LAMBDA r1 :
                Then(post(r1.sch, <<add_copy_field(entity_name \o "_" \o Head(sources),
                                                   textfuzzy_field(entity_name))>>),
                     LAMBDA r2 : add_copy_fields_of_sources(r2.sch, entity_name,
                                                            Tail(sources))))

\* the sources under the names the schema holds them
namespaced(entity_name, sources) ==
    [i \in 1..Len(sources) |-> entity_name \o "_" \o sources[i]]

\* a variant of the rebuild: the copy-fields of a generated field that
\* could not be added are deleted under their namespaced source, and
\* copy-fields are created only when both generated fields were added
rebuild_copy_fields_when_added(sch, entity_name, sources, added_text, added_textfuzzy) ==
    IF added_text /\ added_textfuzzy
    THEN add_copy_fields_of_sources(sch, entity_name, sources)
    ELSE Then(delete_copy_fields_of_sources(sch, namespaced(entity_name, sources),
                                            text_field(entity_name)),
              LAMBDA s1 : delete_copy_fields_of_sources(
                              s1, namespaced(entity_name, sources),
                              textfuzzy_field(entity_name)))

\* lines 383-406: when a generated field could not be added, delete the
\* copy-fields of the configured sources towards it, then create the
\* copy-fields of every source
rebuild_copy_fields(sch, entity_name, sources, added_text, added_textfuzzy) ==
    Then(IF ~added_text
         THEN delete_copy_fields_of_sources(sch, sources, text_field(entity_name))
         ELSE sch,
         LAMBDA s1 :
           Then(IF ~added_textfuzzy
                THEN delete_copy_fields_of_sources(s1, sources, textfuzzy_field(entity_name))
                ELSE s1,
                LAMBDA s2 : add_copy_fields_of_sources(s2, entity_name, sources)))

\* lines 366-381: delete, then add, the two generated fields; [sch, added_text,
\* added_textfuzzy]
recreate_generated_fields(sch, entity_name) ==
    Then(post(sch, <<delete_field_command(text_field(entity_name))>>),
         LAMBDA r2 :
    Then(post(r2.sch, <<delete_field_command(textfuzzy_field(entity_name))>>),
         LAMBDA r3 :
    Then(post(r3.sch, <<add_field(text_field(entity_name),
                                  FieldDef("text_en", TRUE, FALSE, TRUE))>>),
         LAMBDA r4 :
    Then(post(r4.sch, <<add_field(textfuzzy_field(entity_name),
                                  FieldDef("text_en_splitting_tight", TRUE, FALSE, TRUE))>>),
         LAMBDA r5 :
            [sch |-> r5.sch, added_text |-> r4.ok, added_textfuzzy |-> r5.ok]))))

_create_or_update_fields_for_class(sch, cls, update, bases, attrs, config) ==
    Then(getattr_solr_fields(cls, bases, attrs),
         LAMBDA fields :
    Then(create_or_update_declared(sch, entity_name_of(cls), fields, DOMAIN fields, update),
         LAMBDA s1 :
    Then(recreate_generated_fields(s1, entity_name_of(cls)),
         LAMBDA g :
            rebuild_copy_fields(g.sch, entity_name_of(cls),
                                solr_query_fields(config, entity_name_of(cls)),
                                g.added_text, g.added_textfuzzy))))

\* the loop of _create_or_update_fields over app.config['entities'].values():
\* [sch, attrs] after every class of todo
RECURSIVE create_or_update_classes(_, _, _, _, _)
create_or_update_classes(st, todo, update, bases, config) ==
    IF todo = {} THEN st
    ELSE Then(CHOOSE x \in todo : TRUE,
              LAMBDA c :
         Then(cache_solr_fields(c, bases, st.attrs),
              LAMBDA attrs :
         Then(_create_or_update_fields_for_class(st.sch, c, update, bases, attrs, config),
              LAMBDA s1 :
                 create_or_update_classes([sch |-> s1, attrs |-> attrs], todo \ {c},
                                          update, bases, config))))

_create_or_update_fields(sch, attrs, registered, update, bases, config) ==
    create_or_update_classes(
        [sch |-> IF ~update THEN create_field(sch, "type", "string", TRUE, TRUE, FALSE)
                 ELSE sch,
         attrs |-> attrs],
        registered, update, bases, config)

\* the loop of _delete_fields_for_class over the source fields: one request
\* with the two delete-copy-field commands of each source
RECURSIVE delete_copy_fields(_, _, _)
delete_copy_fields(sch, entity_name, sources) ==
    IF sources = <<>> THEN sch
    ELSE Then(post(sch, <<delete_copy_field(entity_name \o "_" \o Head(sources),
                                            text_field(entity_name)),
                          delete_copy_field(entity_name \o "_" \o Head(sources),
                                            textfuzzy_field(entity_name))>>),
              LAMBDA r : delete_copy_fields(r.sch, entity_name, Tail(sources)))

\* the loop over fields.values(): delete_field of each, HTTPError caught
RECURSIVE delete_declared(_, _, _, _)
delete_declared(sch, entity_name, fields, todo) ==
    IF todo = {} THEN sch
    ELSE Then(CHOOSE x \in todo : TRUE,
              LAMBDA a :
         Then(delete_field(sch, entity_name \o "_" \o fields[a].name),
              LAMBDA r : delete_declared(r.sch, entity_name, fields, todo \ {a})))

_delete_fields_for_class(sch, cls, bases, attrs, config) ==
    Then(getattr_solr_fields(cls, bases, attrs),
         LAMBDA fields :
    Then(delete_copy_fields(sch, entity_name_of(cls),
                            solr_query_fields(config, entity_name_of(cls))),
         LAMBDA s1 :
    Then(post(s1, <<delete_field_command(text_field(entity_name_of(cls))),
                    delete_field_command(textfuzzy_field(entity_name_of(cls)))>>),
         LAMBDA r2 :
            delete_declared(r2.sch, entity_name_of(cls), fields, DOMAIN fields))))

\* the loop of delete_fields over SolrEntity.__subclasses__()
RECURSIVE delete_classes(_, _, _, _)
delete_classes(st, todo, bases, config) ==
    IF todo = {} THEN st
    ELSE Then(CHOOSE x \in todo : TRUE,
              LAMBDA c :
         Then(cache_solr_fields(c, bases, st.attrs),
              LAMBDA attrs :
         Then(_delete_fields_for_class(st.sch, c, bases, attrs, config),
              LAMBDA s1 :
                 delete_classes([sch |-> s1, attrs |-> attrs], todo \ {c}, bases, config))))

delete_fields(sch, attrs, bases, config) ==
    Then(delete_classes([sch |-> sch, attrs |-> attrs], subclasses(bases), bases, config),
         LAMBDA st : [st EXCEPT !.sch = delete_field(st.sch, "type").sch])

(***************************************************************************)
(* The calls the model makes on the query side.                            *)
(***************************************************************************)
Alphabet == {"a", "b", " "}

Texts(n) == UNION {[1..k -> Alphabet] : k \in 0..n}

FacetFieldNames == {"kind", "year"}

ValueNames == <<"x", "y", "z", "w">>

\* the first k values a user can select on a facet
Values(k) == [i \in 1..k |-> <<ValueNames[((i - 1) % Len(ValueNames)) + 1]>>]

TheRange == [start |-> 0, end |-> 100, gap |-> 10, other |-> <<"all">>]

Facets ==
    {Facet(f, Values(k)) : f \in FacetFieldNames, k \in 0..MaxValues}
    \cup {FacetRange(f, Values(k), TheRange) : f \in FacetFieldNames, k \in 0..1}

\* lists of at most n facets on distinct fields
FacetLists(n) ==
    UNION {{fs \in [1..k -> Facets] :
                \A i, j \in 1..k : fs[i].field_name = fs[j].field_name => i = j} :
           k \in 0..n}

FqArguments ==
    {None, List(<<Str(<<"type:", "dataset">>)>>), List(<<Str(<<"status:", "a">>)>>)}

Windows ==
    {[rows |-> 50, start |-> 0, sort |-> <<"created">>, sort_order |-> <<"desc">>],
     [rows |-> 0, start |-> 5, sort |-> <<>>, sort_order |-> <<>>]}

SearchCall(q, w, f, fs, z) ==
    [op |-> "search", cls |-> "Dataset", query |-> q, rows |-> w.rows, start |-> w.start,
     sort |-> w.sort, sort_order |-> w.sort_order, fq |-> f, facets |-> fs, fuzzy |-> z]

\* every query with at most one facet, and every facet list with a short query
SearchCalls ==
    {SearchCall(q, w, f, fs, z) :
        q \in Texts(MaxQueryLen), w \in Windows, f \in FqArguments,
        fs \in FacetLists(1), z \in BOOLEAN}
    \cup
    {SearchCall(q, w, f, fs, z) :
        q \in Texts(1), w \in Windows, f \in FqArguments,
        fs \in FacetLists(MaxFacets), z \in BOOLEAN}

\* search_request.args: a name present with one value list, or absent
Arg(name, values) == IF values = <<>> THEN <<>> ELSE <<[name |-> name, values |-> values]>>

MultiDict(pairs) ==
    [n \in {pairs[i].name : i \in 1..Len(pairs)} |->
        (CHOOSE i \in 1..Len(pairs) : pairs[i].name = n) ]

args_of(pairs) == [n \in DOMAIN MultiDict(pairs) |-> pairs[MultiDict(pairs)[n]].values]

DefaultSearchCall(cls, q, page, sort_by, order, export, extra, facets_order, selected, per_page) ==
    [op |-> "default_search", cls |-> cls,
     args |-> args_of(Arg("query", q) \o Arg("page", page) \o Arg("sort_by", sort_by)
                      \o Arg("order", order)
                      \o (IF export.asked THEN Arg("export_excel", <<<<"1">>>>) ELSE <<>>)
                      \o Arg("title", selected)),
     extra_filter |-> extra, facets_order |-> facets_order, results_per_page |-> per_page,
     exporter |-> export.exporter, authenticated |-> export.authenticated]

QueryArgs == {<<>>, << <<"a", " ", "b">> >>, << <<" ">> >>}
PageArgs == {<<>>, << <<"2">> >>, << <<"0">> >>, << <<"-", "1">> >>, << <<"x">> >>}
SortByArgs(cls) == {<<>>, << <<entity_name_of(cls), "_", "created">> >>, << <<"bogus">> >>}
OrderArgs == {<<>>, << <<"asc">> >>, << <<"bogus">> >>}
Exports ==
    {[asked |-> FALSE, exporter |-> FALSE, authenticated |-> FALSE],
     [asked |-> TRUE, exporter |-> FALSE, authenticated |-> FALSE],
     [asked |-> TRUE, exporter |-> TRUE, authenticated |-> FALSE],
     [asked |-> TRUE, exporter |-> TRUE, authenticated |-> TRUE]}
ExtraFilters ==
    {<<>>, <<Str(<<"status:", "a">>)>>, <<Str(<<"status:", "a">>), Str(<<"year:", "b">>)>>}
NoExport == [asked |-> FALSE, exporter |-> FALSE, authenticated |-> FALSE]
SelectedArgs == {IF k = 0 THEN <<>> ELSE Values(k) : k \in 0..MaxValues}

\* requests that vary the query, the page and the export; requests that vary
\* the sort; requests that vary the extra filters and the facets
DefaultSearchCalls ==
    {DefaultSearchCall("Dataset", q, p, <<>>, <<>>, x, <<>>, <<>>, <<>>, n) :
        q \in QueryArgs, p \in PageArgs, x \in Exports, n \in {0, 5}}
    \cup
    {DefaultSearchCall("Dataset", q, <<>>, s, o, NoExport, <<>>, <<>>, <<>>, 0) :
        q \in QueryArgs, s \in SortByArgs("Dataset"), o \in OrderArgs}
    \cup
    {DefaultSearchCall(c, <<>>, p, <<>>, <<>>, NoExport, e, fo, v, 0) :
        c \in {"Dataset", "Cohort"}, p \in {<<>>, << <<"2">> >>}, e \in ExtraFilters,
        fo \in {<<>>, <<"title">>, <<"title", "created", "missing">>}, v \in SelectedArgs}

GetCalls ==
    {[op |-> "get", cls |-> c, entity_id |-> i] : c \in Classes, i \in {<<"1">>, <<"2">>}}

CountCalls == {[op |-> "count", cls |-> c] : c \in Classes}

AllCalls == {[op |-> "all", cls |-> c] : c \in Classes}

FlatHierarchy == [c \in Classes |-> "SolrEntity"]

\* get_fields_for_class(cls) under hierarchies where Project may extend Dataset
\* and Cohort may extend Dataset or Project
DescriptorCalls == {[op |-> "get_fields_for_class", cls |-> c] : c \in Classes}

DescriptorHierarchies ==
    {[c \in Classes |-> CASE c = "Project" -> bp [] c = "Cohort" -> bc [] OTHER -> "SolrEntity"] :
        bp \in {"SolrEntity", "Dataset"}, bc \in {"SolrEntity", "Dataset", "Project"}}

Calls ==
    SearchCalls \cup DefaultSearchCalls \cup GetCalls \cup CountCalls \cup AllCalls
    \cup DescriptorCalls

\* the SolrQuery instance entity_class.query: its class defines BOOST
query_of(cls, bases, attrs) ==
    [class_object |-> cls, entity_name |-> entity_name_of(cls), BOOST |-> <<"boost">>,
     solr_fields |-> getattr_solr_fields(cls, bases, attrs)]

InitQuery ==
    /\ call \in Calls
    /\ documents \in IF call.op \in {"get", "all", "count"} THEN {IndexDocs} \cup DatedIndexes
                ELSE {IndexDocs}
    /\ baseOf \in CASE call.op \in {"search", "default_search"} -> {FlatHierarchy}
                    [] call.op = "get_fields_for_class" -> DescriptorHierarchies
                    [] OTHER -> Hierarchies
    /\ solr_fields = SolrORM_init(subclasses(baseOf), baseOf, [c \in Classes |-> NoAttr])
    /\ entities = Classes
    /\ queryTextField = [e \in {} |-> <<>>]
    /\ schemaFields = EmptySchema.fields
    /\ copyFields = EmptySchema.copy
    /\ history = <<>>
    /\ before = EmptySchema
    /\ outcome = None
    /\ fqList = IF call.op = "search" THEN call.fq ELSE None
    /\ engineLog = <<>>

SolrQuery_search ==
    /\ call.op = "search"
    /\ outcome = None
    /\ LET self == query_of(call.cls, baseOf, solr_fields)
           st == build_request(self, call.query, call.rows, call.start, call.sort,
                               call.sort_order, call.fq, call.facets, call.fuzzy)
       IN \E resp \in Responses(<<"*:*">>, st.fq) :
            \E r \in {search(self, call.query, call.rows, call.start, call.sort,
                              call.sort_order, call.fq, call.facets, call.fuzzy, resp)} :
               /\ outcome' = r.outcome
               /\ engineLog' = r.log
               /\ fqList' = IF call.fq = None THEN None ELSE List(r.fq)
    /\ UNCHANGED <<call, schemaFields, copyFields, baseOf, solr_fields, entities,
                   queryTextField, history, before, documents>>

SolrQuery_get ==
    /\ call.op = "get"
    /\ outcome = None
    /\ LET self == query_of(call.cls, baseOf, solr_fields) IN
       \E resp \in Responses(get_query(self, call.entity_id), <<>>) :
            \E r \in {get(self, call.entity_id, resp)} :
               /\ outcome' = r.outcome
               /\ engineLog' = r.log
    /\ UNCHANGED <<call, fqList, schemaFields, copyFields, baseOf, solr_fields, entities,
                   queryTextField, history, before, documents>>

SolrQuery_count ==
    /\ call.op = "count"
    /\ outcome = None
    /\ LET self == query_of(call.cls, baseOf, solr_fields) IN
       \E resp \in Responses(type_query(self), <<>>) :
            \E r \in {count(self, resp)} :
               /\ outcome' = r.outcome
               /\ engineLog' = r.log
    /\ UNCHANGED <<call, fqList, schemaFields, copyFields, baseOf, solr_fields, entities,
                   queryTextField, history, before, documents>>

SolrQuery_all ==
    /\ call.op = "all"
    /\ outcome = None
    /\ LET self == query_of(call.cls, baseOf, solr_fields) IN
       \E resp \in Responses(type_query(self), <<>>) :
            \E r \in {all(self, resp)} :
               /\ outcome' = r.outcome
               /\ engineLog' = r.log
    /\ UNCHANGED <<call, fqList, schemaFields, copyFields, baseOf, solr_fields, entities,
                   queryTextField, history, before, documents>>

Controller_default_search ==
    /\ call.op = "default_search"
    /\ outcome = None
    /\ LET self == query_of(call.cls, baseOf, solr_fields)
           fq == default_search_fq(self.entity_name, call.extra_filter)
       IN \E count_resp \in Responses(type_query(self), <<>>) :
          \E search_resp \in Responses(<<"*:*">>, fq) :
            \E r \in {default_search(self, call.args, call.extra_filter,
                                      call.facets_order, call.results_per_page,
                                      call.exporter, call.authenticated,
                                      count_resp, search_resp)} :
               /\ outcome' = r.outcome
               /\ engineLog' = r.log
               /\ fqList' = r.fq
    /\ UNCHANGED <<call, schemaFields, copyFields, baseOf, solr_fields, entities,
                   queryTextField, history, before, documents>>

SolrORM_get_fields_for_class ==
    /\ call.op = "get_fields_for_class"
    /\ outcome = None
    /\ outcome' = Return(get_fields_for_class(call.cls, baseOf))
    /\ UNCHANGED <<call, fqList, engineLog, schemaFields, copyFields, baseOf, solr_fields,
                   entities, queryTextField, history, before, documents>>

NextQuery ==
    \/ SolrQuery_search
    \/ Controller_default_search
    \/ SolrQuery_get
    \/ SolrQuery_count
    \/ SolrQuery_all
    \/ SolrORM_get_fields_for_class

SpecQuery == InitQuery /\ [][NextQuery]_vars


(***************************************************************************)
(* The schema side: the administrator runs createFields, updateFields and  *)
(* deleteFields in any order, and may change the configured source fields  *)
(* between two runs.                                                       *)
(***************************************************************************)
HistoryLen == 3

EntitySets == {{"Dataset"}, {"Dataset", "Cohort"}, {"Dataset", "Project", "Cohort"}}

\* values of app.config['SOLR_QUERY_TEXT_FIELD']
Configs ==
    {[e \in {} |-> <<>>],
     ("dataset" :> <<"title", "created">>),
     ("dataset" :> <<"created">>) @@ ("cohort" :> <<"title", "size">>)}

CurrentSchema == [fields |-> schemaFields, copy |-> copyFields]

Push(h, e) == IF Len(h) < HistoryLen THEN Append(h, e) ELSE Append(Tail(h), e)

Entry(op) == [op |-> op, fresh |-> CurrentSchema = EmptySchema]

InitSchema ==
    /\ baseOf \in Hierarchies
    /\ entities \in EntitySets
    /\ queryTextField \in Configs
    /\ solr_fields = SolrORM_init(subclasses(baseOf), baseOf, [c \in Classes |-> NoAttr])
    /\ schemaFields = EmptySchema.fields
    /\ copyFields = EmptySchema.copy
    /\ history = <<>>
    /\ before = EmptySchema
    /\ documents = IndexDocs
    /\ call = [op |-> "schema"]
    /\ outcome = None
    /\ fqList = None
    /\ engineLog = <<>>

SolrORM_create_fields ==
    /\ \E st \in {_create_or_update_fields(CurrentSchema, solr_fields, entities, FALSE,
                                          baseOf, queryTextField)} :
          /\ schemaFields' = st.sch.fields
          /\ copyFields' = st.sch.copy
          /\ solr_fields' = st.attrs
    /\ history' = Push(history, Entry("create_fields"))
    /\ before' = CurrentSchema
    /\ outcome' = Return(None)
    /\ UNCHANGED <<call, fqList, engineLog, baseOf, entities, queryTextField, documents>>

SolrORM_update_fields ==
    /\ \E st \in {_create_or_update_fields(CurrentSchema, solr_fields, entities, TRUE,
                                          baseOf, queryTextField)} :
          /\ schemaFields' = st.sch.fields
          /\ copyFields' = st.sch.copy
          /\ solr_fields' = st.attrs
    /\ history' = Push(history, Entry("update_fields"))
    /\ before' = CurrentSchema
    /\ outcome' = Return(None)
    /\ UNCHANGED <<call, fqList, engineLog, baseOf, entities, queryTextField, documents>>

SolrORM_delete_fields ==
    /\ \E st \in {delete_fields(CurrentSchema, solr_fields, baseOf, queryTextField)} :
          /\ schemaFields' = st.sch.fields
          /\ copyFields' = st.sch.copy
          /\ solr_fields' = st.attrs
    /\ history' = Push(history, Entry("delete_fields"))
    /\ before' = CurrentSchema
    /\ outcome' = Return(None)
    /\ UNCHANGED <<call, fqList, engineLog, baseOf, entities, queryTextField, documents>>

\* the application is restarted with other source fields configured
Reconfigure ==
    /\ \E config \in Configs \ {queryTextField} : queryTextField' = config
    /\ history' = Push(history, Entry("configure"))
    /\ before' = CurrentSchema
    /\ UNCHANGED <<call, outcome, fqList, engineLog, schemaFields, copyFields, baseOf,
                   solr_fields, entities, documents>>

NextSchema ==
    \/ SolrORM_create_fields
    \/ SolrORM_update_fields
    \/ SolrORM_delete_fields
    \/ Reconfigure

SpecSchema == InitSchema /\ [][NextSchema]_vars

(***************************************************************************)
(* Vocabulary of the properties of the query side.                         *)
(***************************************************************************)
Done == outcome # None

EntityName == entity_name_of(call.cls)

\* the tokens of a string run together
RECURSIVE Flat(_)
Flat(s) == IF s = <<>> THEN "" ELSE Head(s) \o Flat(Tail(s))

\* the engine queries issued by search: their primary query is the match-all
SearchRequests == {i \in 1..Len(engineLog) : engineLog[i].q = <<"*:*">>}

RequestFq(i) == engineLog[i].params[<<"fq">>]

\* the filter list the call started from
GivenFq ==
    IF call.op = "default_search" THEN default_search_fq(EntityName, call.extra_filter)
    ELSE IF call.fq = None THEN <<>> ELSE call.fq.list

\* the filter lists that can be observed after the call: the list object the
\* caller passed and the list of every request search sent
ObservedFqs ==
    (IF fqList # None THEN {fqList.list} ELSE {})
    \cup {RequestFq(i) : i \in SearchRequests}

\* the clauses search appended to the list l
Appended(l) == SubSeq(l, Len(GivenFq) + 1, Len(l))

StartsWith(s, prefix) == Len(s) >= Len(prefix) /\ SubSeq(s, 1, Len(prefix)) = prefix

\* the free-text clauses of a list: those that name a generated text field
IsTextClause(v) ==
    IsStr(v) /\ \E i \in 1..Len(v.str) : v.str[i] \in {"_text_:'", "_textfuzzy_:"}

TextClauses(l) == {i \in 1..Len(l) : IsTextClause(l[i])}

\* the clauses of a list that restrict the namespaced field of a facet
OnField(l, field_name) ==
    {i \in 1..Len(l) :
        /\ IsStr(l[i])
        /\ \/ StartsWith(l[i].str, <<EntityName, "_", field_name, ":">>)
           \/ StartsWith(l[i].str, <<EntityName, "_", field_name, ":\"">>)}

\* C1: every engine query issued by search carries type:<entityName> in its
\* filter list, and no returned document belongs to another entity type.
C1_TypeClauseOnEverySearch ==
    (call.op = "search" /\ Done) =>
        /\ \A i \in SearchRequests :
              \E j \in 1..Len(RequestFq(i)) : RequestFq(i)[j] = Str(<<"type:", EntityName>>)
        /\ outcome.kind = "return" =>
              \A k \in 1..Len(outcome.value.docs) : outcome.value.docs[k].type = EntityName

\* C2: with fuzzy=false and a query that is non-empty after trimming, exactly
\* one clause against <entityName>_text_ is appended and it matches the
\* trimmed query.
C2_ExactClauseMatchesQuery ==
    (call.op = "search" /\ Done /\ ~call.fuzzy /\ strip(call.query) # <<>>) =>
        \A l \in ObservedFqs :
            /\ Cardinality(TextClauses(Appended(l))) = 1
            /\ \A i \in TextClauses(Appended(l)) :
                  Flat(Appended(l)[i].str)
                    = EntityName \o "_text_:'" \o Flat(strip(call.query)) \o "'"

\* the whitespace-delimited terms of q: its maximal runs of non-blank characters
TermStarts(q) == {i \in 1..Len(q) : q[i] # " " /\ (i = 1 \/ q[i - 1] = " ")}

TermAt(q, i) ==
    SubSeq(q, i, CHOOSE j \in i..Len(q) :
                    /\ \A k \in i..j : q[k] # " "
                    /\ (j = Len(q) \/ q[j + 1] = " "))

\* " OR <entity>_textfuzzy_:<term>~4" for every term of q from position i on
RECURSIVE FuzzyMatches(_, _, _)
FuzzyMatches(entity, q, i) ==
    IF i > Len(q) THEN ""
    ELSE IF i \in TermStarts(q)
    THEN " OR " \o entity \o "_textfuzzy_:" \o Flat(TermAt(q, i)) \o "~4"
         \o FuzzyMatches(entity, q, i + 1)
    ELSE FuzzyMatches(entity, q, i + 1)

\* C3: with fuzzy=true and a trimmed query of n >= 1 terms exactly one clause
\* is appended: the disjunction of the exact phrase against <entity>_text_ and
\* one fuzzy match per term, in order, against <entity>_textfuzzy_, each with
\* the tolerance marker; an empty trimmed query appends no clause.
C3_FuzzyClause ==
    (call.op = "search" /\ Done /\ call.fuzzy) =>
        \A l \in ObservedFqs :
            IF strip(call.query) = <<>>
            THEN TextClauses(Appended(l)) = {}
            ELSE /\ TextClauses(Appended(l)) = {1}
                 /\ Flat(Appended(l)[1].str)
                      = "(" \o EntityName \o "_text_:'" \o Flat(strip(call.query)) \o "'"
                        \o FuzzyMatches(EntityName, strip(call.query), 1) \o ")"

\* C3 witness: a fuzzy search for a two-term query reached the engine
C3_Witness ==
    /\ call.op = "search" /\ call.fuzzy /\ call.query = <<"b", " ", "a">>
    /\ outcome # None /\ outcome.kind = "return"
    /\ \E i \in SearchRequests : TextClauses(Appended(RequestFq(i))) = {1}


\* the facets handed to search by the call; default_search hands over the
\* facets of the configured order when the index holds entities of the type
PassedFacets ==
    IF call.op = "search" THEN call.facets
    ELSE IF call.op = "default_search"
            /\ \E i \in SearchRequests : <<"facet">> \in DOMAIN engineLog[i].params
    THEN select_facets(get_facets(query_of(call.cls, baseOf, solr_fields), call.facets_order),
                       call.args)
    ELSE <<>>

Occurrences(list, x) == Cardinality({j \in 1..Len(list) : list[j] = x})

\* C4: for every discrete Facet passed to search its namespaced field is added
\* once to the field-facet list, and the filter list receives one clause on
\* that field per selected value (none for a facet without selection).
C4_DiscreteFacetClauses ==
    (call.op \in {"search", "default_search"} /\ Done) =>
        \A k \in 1..Len(PassedFacets) :
            ~isinstance_FacetRange(PassedFacets[k]) =>
                /\ \A l \in ObservedFqs :
                      Cardinality(OnField(Appended(l), PassedFacets[k].field_name))
                        = Len(PassedFacets[k].values)
                /\ \A i \in SearchRequests :
                      Occurrences(engineLog[i].params[<<"facet.field">>],
                                  <<EntityName, "_", PassedFacets[k].field_name>>) = 1

\* C5: for every FacetRange passed to search the request sent to the engine
\* holds the namespaced field in the range-facet list with its start, end,
\* gap and other parameters and one filter clause per pre-selected value;
\* search goes on to issue the engine query.
C5_RangeFacetRequest ==
    (call.op = "search" /\ Done
        /\ \E k \in 1..Len(call.facets) : isinstance_FacetRange(call.facets[k])) =>
        \E i \in SearchRequests :
            \A k \in 1..Len(call.facets) :
                LET facet == call.facets[k]
                    params == engineLog[i].params
                IN isinstance_FacetRange(facet) =>
                    /\ Occurrences(params[<<"facet.range">>],
                                   <<EntityName, "_", facet.field_name>>) = 1
                    /\ \A what \in {"start", "end", "gap", "other"} :
                          /\ range_param(EntityName, facet.field_name, what) \in DOMAIN params
                          /\ params[range_param(EntityName, facet.field_name, what)]
                               = facet.range[what]
                    /\ Cardinality(OnField(Appended(RequestFq(i)), facet.field_name))
                         = Len(facet.values)

\* C6: when an engine call of search, get, count or all fails, the caller
\* receives one SolrQueryException carrying the underlying error and never
\* a result.
C6_FailureIsQueryException ==
    (call.op \in {"search", "get", "count", "all"} /\ Done
        /\ \E i \in 1..Len(engineLog) : engineLog[i].failed) =>
        /\ outcome.kind = "raise"
        /\ outcome.exc.type = "SolrQueryException"
        /\ outcome.exc.cause.type = "SolrError"

(***************************************************************************)
(* Vocabulary of the properties of the schema side.                        *)
(***************************************************************************)
\* the last n schema operations, oldest first
Ran(ops) ==
    /\ Len(history) >= Len(ops)
    /\ \A i \in 1..Len(ops) : history[Len(history) - Len(ops) + i].op = ops[i]

\* the operation n places before the last one started on an empty schema
StartedFresh(n) == history[Len(history) - n].fresh

\* the sources of the copy-fields towards dest
SourcesInto(dest) == {cf[1] : cf \in {c \in copyFields : c[2] = dest}}

\* the configured source fields of an entity, namespaced, that the schema holds
ConfiguredSources(entity_name) ==
    LET sources == solr_query_fields(queryTextField, entity_name) IN
    {entity_name \o "_" \o sources[i] : i \in 1..Len(sources)} \cap DOMAIN schemaFields

\* what createFields leaves on an empty schema
FreshCreate ==
    _create_or_update_fields(EmptySchema, solr_fields, entities, FALSE, baseOf,
                             queryTextField).sch

\* C7: after createFields or updateFields, the copy-fields towards the two
\* generated fields of every registered entity have as sources exactly the
\* configured source fields of that entity, whatever the schema held before.
C7_CopyFieldsMirrorSources ==
    (Ran(<<"create_fields">>) \/ Ran(<<"update_fields">>)) =>
        \A cls \in entities :
            LET entity_name == entity_name_of(cls) IN
            \A dest \in {text_field(entity_name), textfuzzy_field(entity_name)} :
                dest \in DOMAIN schemaFields =>
                    SourcesInto(dest) = ConfiguredSources(entity_name)

\* C8: createFields run again after createFields, or updateFields after
\* updateFields, returns to the caller without an error and leaves the
\* fields and the copy-fields as the first run left them.
C8_CreateAndUpdateIdempotent ==
    (Ran(<<"create_fields", "create_fields">>) \/ Ran(<<"update_fields", "update_fields">>)) =>
        /\ outcome.kind = "return"
        /\ CurrentSchema = before

C8_Witness ==
    /\ Ran(<<"create_fields", "create_fields">>)
    /\ "dataset_created" \in SourcesInto("dataset_text_")
    /\ "cohort_title" \in SourcesInto("cohort_textfuzzy_")
    /\ CurrentSchema = before

\* C9: createFields, then deleteFields, then createFields leaves the fields
\* and the copy-fields that createFields leaves on an empty schema.
C9_DeleteThenCreateConverges ==
    Ran(<<"create_fields", "delete_fields", "create_fields">>) =>
        CurrentSchema = FreshCreate

\* C10: createFields on an empty schema followed by deleteFields leaves no
\* copy-field and no field: the generated fields, the declared fields of
\* every registered entity and the type field are gone.
C10_DeleteReversesCreate ==
    (Ran(<<"create_fields", "delete_fields">>) /\ StartedFresh(1)) =>
        CurrentSchema = EmptySchema

\* C11: createFields and updateFields ensure the shared type field (string,
\* indexed, stored, not multivalued) ahead of the per-entity requests, so
\* after either of them has run on a schema without it the type field exists.
C11_TypeFieldEnsured ==
    (Ran(<<"create_fields">>) \/ Ran(<<"update_fields">>)) =>
        /\ "type" \in DOMAIN schemaFields
        /\ schemaFields["type"] = FieldDef("string", TRUE, TRUE, FALSE)

\* the field declared under attribute a on the class nearest to cls among cls
\* and its ancestors
RECURSIVE NearestDeclared(_, _, _)
NearestDeclared(cls, bases, a) ==
    IF cls \notin Classes THEN None
    ELSE IF a \in DOMAIN ClassDict(cls) THEN ClassDict(cls)[a]
    ELSE NearestDeclared(bases[cls], bases, a)

\* C12: the descriptor get_fields_for_class resolves maps every attribute
\* name to the field declared on the class nearest to the entity class, the
\* child's field when a child and an ancestor declare the same name.
C12_ChildFieldsTakePrecedence ==
    (call.op = "get_fields_for_class" /\ Done) =>
        \A a \in DOMAIN outcome.value :
            outcome.value[a] = NearestDeclared(call.cls, baseOf, a)


\* the attribute names declared on a class or on one of its ancestors
RECURSIVE DeclaredNames(_, _)
DeclaredNames(cls, bases) ==
    IF cls \notin Classes THEN {}
    ELSE DOMAIN ClassDict(cls) \cup DeclaredNames(bases[cls], bases)

\* C13: after initialisation and any sequence of createFields, updateFields
\* and deleteFields, the descriptor used for every registered entity type is
\* the one cached on that type itself, and it holds every field declared on
\* the type and on its ancestors, also when the type extends another entity
\* type whose descriptor was cached earlier.
C13_DescriptorIsTheTypesOwn ==
    history # <<>> =>
        \A cls \in entities :
            /\ owner_of_solr_fields(cls, baseOf, solr_fields) = cls
            /\ DeclaredNames(cls, baseOf) \subseteq
                   DOMAIN getattr_solr_fields(cls, baseOf, solr_fields)

\* C14: when default_search is given an extra_filter list of k strings, the
\* filter list passed to search, and sent with every engine query of search,
\* holds each of those k strings as an element of its own.
C14_ExtraFiltersPassedAsElements ==
    (call.op = "default_search" /\ Done /\ call.extra_filter # <<>>) =>
        \A i \in SearchRequests :
            \A k \in 1..Len(call.extra_filter) :
                \E j \in 1..Len(RequestFq(i)) : RequestFq(i)[j] = call.extra_filter[k]

(***************************************************************************)
(* Vocabulary of the properties of hydration.                              *)
(***************************************************************************)
Self == query_of(call.cls, baseOf, solr_fields)

\* the date-typed attributes of the descriptor of the queried class
DateAttributes == {a \in DOMAIN Self.solr_fields : Self.solr_fields[a].type = "pdate"}

\* the value a document stores for an attribute, None when it stores none
Stored(doc, a) == doc_get(doc, Self.entity_name \o "_" \o Self.solr_fields[a].name)

\* a stored date in the primary or in the secondary format
Decodable(v) == v.format \in {DATETIME_FORMAT, DATETIME_FORMAT_NO_MICRO}

Undecodable(doc) ==
    \E a \in DateAttributes : Stored(doc, a) # None /\ ~Decodable(Stored(doc, a))

\* the instance carries, for every date attribute, the decoded datetime, or
\* nothing when the document stores no value
HydratedFrom(instance, doc) ==
    \A a \in DateAttributes :
        IF Stored(doc, a) = None THEN instance[a] = None
        ELSE instance[a] = [datetime |-> Stored(doc, a).instant]

\* the documents the engine answered the call's query with
Answered == pick(matching(engineLog[1].q, <<>>), Len(documents))

EngineAnswered == Done /\ Len(engineLog) = 1 /\ ~engineLog[1].failed

\* C15: a stored date in the primary format or in the format without
\* fractional seconds hydrates to a datetime, an absent value leaves the
\* attribute unset, and any other stored string makes get and all fail with
\* the decoding error, which reaches their caller.
C15_DateHydration ==
    /\ (call.op = "get" /\ EngineAnswered /\ Answered # <<>>) =>
          IF Undecodable(Answered[1])
          THEN outcome.kind = "raise" /\ outcome.exc.type = "ValueError"
          ELSE outcome.kind = "return" /\ HydratedFrom(outcome.value, Answered[1])
    /\ (call.op = "all" /\ EngineAnswered) =>
          IF \E i \in 1..Len(Answered) : Undecodable(Answered[i])
          THEN outcome.kind = "raise" /\ outcome.exc.type = "ValueError"
          ELSE /\ outcome.kind = "return"
               /\ Len(outcome.value) = Len(Answered)
               /\ \A i \in 1..Len(Answered) : HydratedFrom(outcome.value[i], Answered[i])

\* all met a document whose date is in neither format, after one in the
\* format without fractional seconds, and its caller got the decoding error
C15_Witness ==
    /\ call.op = "all"
    /\ EngineAnswered
    /\ Len(Answered) = 2
    /\ Stored(Answered[1], "created") # None
    /\ Stored(Answered[1], "created").format = DATETIME_FORMAT_NO_MICRO
    /\ Undecodable(Answered[2])
    /\ outcome.kind = "raise"

(***************************************************************************)
(* Vocabulary of the properties of pagination.                             *)
(***************************************************************************)
\* the page a request asks for: the page argument as an integer, 1 when the
\* argument is missing or is not a number
RequestedPage ==
    IF "page" \notin DOMAIN call.args THEN 1
    ELSE IF int(strip(call.args["page"][1])).raised # None THEN 1
    ELSE int(strip(call.args["page"][1])).value

PageSize ==
    IF call.results_per_page # 0 THEN call.results_per_page ELSE RESULTS_PER_PAGE_DEFAULT

IsExport == "export_excel" \in DOMAIN call.args /\ call.exporter

\* the offset an engine query asks for; the engine starts at 0 when none is sent
IssuedStart(i) ==
    IF <<"start">> \in DOMAIN engineLog[i].params THEN engineLog[i].params[<<"start">>]
    ELSE 0

Rejected ==
    /\ outcome.kind = "return"
    /\ outcome.value.template = "error.html"
    /\ outcome.value.status = 400
    /\ engineLog = <<>>

\* C16: default_search rejects a request whose page is below 1 before any
\* engine query is sent, and the search of every request with page >= 1 asks
\* for start = (page - 1) * pageSize.
C16_StartFollowsPage ==
    (call.op = "default_search" /\ Done) =>
        /\ RequestedPage < 1 => Rejected
        /\ RequestedPage >= 1 =>
              \A i \in SearchRequests : IssuedStart(i) = (RequestedPage - 1) * PageSize

\* C16 as amended: the same, except that an export asks for the results from
\* the first one on whatever the page.
C16_StartFollowsPageUnlessExport ==
    (call.op = "default_search" /\ Done) =>
        /\ RequestedPage < 1 => Rejected
        /\ RequestedPage >= 1 =>
              \A i \in SearchRequests :
                  IssuedStart(i) = IF IsExport THEN 0 ELSE (RequestedPage - 1) * PageSize

\* the second page of a listing was asked for and search was sent its offset
C16_Witness ==
    /\ call.op = "default_search"
    /\ Done
    /\ RequestedPage = 2
    /\ ~IsExport
    /\ \E i \in SearchRequests : IssuedStart(i) = PageSize

\* C17: search leaves its caller's filter list unchanged: once search has
\* returned or raised, the list object passed as fq holds exactly the
\* elements it held before the call.
C17_CallerFilterListUnchanged ==
    (call.op = "search" /\ Done /\ call.fq # None) => fqList = call.fq

====
